---- MODULE Spec2Model ----
(***************************************************************************)
(* Light Control API: the in-memory LightService (lights, groups, the two  *)
(* id counters) and the one-shot timers registered by scheduleAction, as   *)
(* run by the single-threaded Node.js event loop.                          *)
(*                                                                         *)
(* Time is counted in ticks.  A timer registered by setTimeout(cb, delay)  *)
(* fires at or after its due time; Node replaces a delay that is not a     *)
(* number, is below 1 or is above TIMEOUT_MAX by 1.  An exception that     *)
(* leaves a timer callback is uncaught: Node prints it and the process     *)
(* exits, so nothing runs afterwards.                                      *)
(***************************************************************************)
EXTENDS Integers, Sequences, FiniteSets, TLC

VARIABLES
    lights,          \* LightService.lights: id -> Light
    groups,          \* LightService.groups: id -> LightGroup
    groupIdCounter,  \* LightService.groupIdCounter
    lightIdCounter,  \* LightService.lightIdCounter
    timers,          \* pending setTimeout callbacks of scheduleAction
    now,             \* the clock read by new Date()
    op,              \* the operation called last
    err,             \* the Error thrown to the caller by the last call
    ret,             \* the id returned by the last addLight / createGroup
    toggled,         \* the lights the last call switched, in console.log order
    uncaught,        \* the Error that left a timer callback, if any
    ever,            \* history: every light id and group id that ever existed
    LOGIN_REQUIRED,  \* envVars.LOGIN_REQUIRED, fixed when the process starts
    requests,        \* rateLimit's requests: ip -> timestamps it has admitted
    served,          \* history: ip -> the times its requests passed rateLimit
    rejected,        \* history: ip -> when rateLimit last answered it 429
    statusCode       \* the HTTP status of the last response, 0 before any

store == <<lights, groups, groupIdCounter, lightIdCounter>>
http == <<LOGIN_REQUIRED, requests, served, rejected, statusCode>>
vars == <<lights, groups, groupIdCounter, lightIdCounter, timers, now,
          op, err, ret, toggled, uncaught, ever,
          LOGIN_REQUIRED, requests, served, rejected, statusCode>>

---------------------------------------------------------------------------
(* Bounds of the model *)

MaxLightId == 3     \* addLight is offered while lightIdCounter <= MaxLightId
MaxGroupId == 1     \* createGroup is offered while groupIdCounter <= MaxGroupId
MaxLen == 2         \* longest lightIds list handed to createGroup
MaxTimers == 2      \* most timers pending at once

(* Largest delay setTimeout honours (2^31 - 1 ms in Node), in ticks. *)
TIMEOUT_MAX == 2

(* The clock runs to the first tick a delay from tick 0 cannot reach. *)
MaxTime == TIMEOUT_MAX + 1

---------------------------------------------------------------------------
(* Values *)

NoError == "none"
LightNotFound == "Light not found"
GroupNotFound == "Group not found"
BrightnessRange == "Brightness should be between 0 and 100"
PastTime == "Scheduled time must be in the future"

LightColor == {"white", "blue", "red", "green", "yellow"}

Actions == {"on", "off"}

(* Inputs offered to the operations. *)
IdInputs == 1..(MaxLightId + 1)
GroupIdInputs == 1..(MaxGroupId + 1)
BrightnessInputs == {-1, 0, 100, 101}
ColorInputs == {"white", "blue", "purple"}
NameInputs == {"Room"}
IPs == {"10.0.0.1", "10.0.0.2"}

RECURSIVE SeqsUpTo(_, _)
SeqsUpTo(S, n) ==
    IF n = 0 THEN {<<>>}
    ELSE LET shorter == SeqsUpTo(S, n - 1)
         IN  shorter \cup {Append(s, x) : s \in shorter, x \in S}

LightIdsInputs == SeqsUpTo(1..(MaxLightId + 1), MaxLen)

(* Member lists in rising or in falling order of id, one longer than      *)
(* MaxLen at most.                                                        *)
MemberInputs ==
    {ids \in SeqsUpTo(1..(MaxLightId + 1), MaxLen + 1) :
        \/ \A i \in 1..(Len(ids) - 1) : ids[i] < ids[i + 1]
        \/ \A i \in 1..(Len(ids) - 1) : ids[i] > ids[i + 1]}

(* A time string: one that Date parses to a tick, or one it does not. *)
TimeInputs ==
    [valid : {TRUE}, t : 0..MaxTime] \cup [valid : {FALSE}, t : {0}]

DefaultLight(id) ==
    [id |-> id, status |-> "off", brightness |-> 0, color |-> "white"]

---------------------------------------------------------------------------
(* Helpers of the sequence primitives used by the service *)

RECURSIVE filterNot(_, _)
(* Array.filter(id => id !== lightId) *)
filterNot(ids, lightId) ==
    IF ids = <<>> THEN <<>>
    ELSE IF Head(ids) # lightId
         THEN <<Head(ids)>> \o filterNot(Tail(ids), lightId)
         ELSE filterNot(Tail(ids), lightId)

(* Array.includes *)
includes(ids, lightId) == \E i \in 1..Len(ids) : ids[i] = lightId

(* obj[k] = v  and  delete obj[k]  on a JavaScript object used as a map *)
put(obj, k, v) == [i \in (DOMAIN obj) \cup {k} |-> IF i = k THEN v ELSE obj[i]]

del(obj, k) == [i \in (DOMAIN obj) \ {k} |-> obj[i]]

removeAt(s, i) == SubSeq(s, 1, i - 1) \o SubSeq(s, i + 1, Len(s))

---------------------------------------------------------------------------
(* The initial state: the constructor's two default lights *)

Started(loginRequired) ==
    /\ lights = (1 :> DefaultLight(1)) @@ (2 :> DefaultLight(2))
    /\ groups = <<>>
    /\ groupIdCounter = 1
    /\ lightIdCounter = 3
    /\ timers = <<>>
    /\ now = 0
    /\ op = "constructor"
    /\ err = NoError
    /\ ret = 0
    /\ toggled = <<>>
    /\ uncaught = NoError
    /\ ever = [lights |-> {1, 2}, groups |-> {}]
    /\ LOGIN_REQUIRED = loginRequired
    /\ requests = [ip \in IPs |-> <<>>]
    /\ served = [ip \in IPs |-> <<>>]
    /\ rejected = [ip \in IPs |-> <<>>]
    /\ statusCode = 0

(* LOGIN_REQUIRED is false unless the environment sets it. *)
Init == Started(FALSE)

(* The process started with either setting of LOGIN_REQUIRED. *)
HttpInit == \E loginRequired \in BOOLEAN : Started(loginRequired)

(* The process runs until an exception leaves a timer callback. *)
Alive == uncaught = NoError

---------------------------------------------------------------------------
(* LightService *)

(* Variant: the existence check is left out. *)
verifyLightExistsSkipped(id) == TRUE

(* verifyLightExists throws unless this.lights[id] is set; TRUE = no throw *)
verifyLightExists(id) == id \in DOMAIN lights

(* this.lights[id] || null, as zero or one light *)
getLight(id) == IF id \in DOMAIN lights THEN <<lights[id]>> ELSE <<>>

getAllLights == lights

(* A call of o that throws e before it has changed anything. *)
Throw(o, e) ==
    /\ op' = o
    /\ err' = e
    /\ ret' = 0
    /\ toggled' = <<>>
    /\ UNCHANGED <<store, timers, now, uncaught, ever>>

(* A call of o that returned r. *)
Return(o, r) ==
    /\ op' = o
    /\ err' = NoError
    /\ ret' = r
    /\ toggled' = <<>>
    /\ UNCHANGED <<now, uncaught>>

(* A call of o that switched the lights ids, one console.log line each, *)
(* and ended with e.                                                    *)
Switched(o, e, ids) ==
    /\ op' = o
    /\ err' = e
    /\ ret' = 0
    /\ toggled' = ids
    /\ UNCHANGED <<now, uncaught>>

setStatus(L, id, status) == [L EXCEPT ![id].status = status]

turnOn(id) ==
    /\ Alive
    /\ IF ~verifyLightExists(id) THEN Throw("turnOn", LightNotFound)
       ELSE /\ lights' = setStatus(lights, id, "on")
            /\ Switched("turnOn", NoError, <<id>>)
            /\ UNCHANGED <<groups, groupIdCounter, lightIdCounter, timers, ever>>

turnOff(id) ==
    /\ Alive
    /\ IF ~verifyLightExists(id) THEN Throw("turnOff", LightNotFound)
       ELSE /\ lights' = setStatus(lights, id, "off")
            /\ Switched("turnOff", NoError, <<id>>)
            /\ UNCHANGED <<groups, groupIdCounter, lightIdCounter, timers, ever>>

(* Variant: the bounds of the range are refused too. *)
setBrightnessExclusive(id, brightness) ==
    /\ Alive
    /\ IF ~verifyLightExists(id) THEN Throw("setBrightness", LightNotFound)
       ELSE IF brightness <= 0 \/ brightness >= 100
            THEN Throw("setBrightness", BrightnessRange)
       ELSE /\ lights' = [lights EXCEPT ![id].brightness = brightness]
            /\ Return("setBrightness", 0)
            /\ UNCHANGED <<groups, groupIdCounter, lightIdCounter, timers, ever>>

setBrightness(id, brightness) ==
    /\ Alive
    /\ IF ~verifyLightExists(id) THEN Throw("setBrightness", LightNotFound)
       ELSE IF brightness < 0 \/ brightness > 100
            THEN Throw("setBrightness", BrightnessRange)
       ELSE /\ lights' = [lights EXCEPT ![id].brightness = brightness]
            /\ Return("setBrightness", 0)
            /\ UNCHANGED <<groups, groupIdCounter, lightIdCounter, timers, ever>>

setColor(id, color) ==
    /\ Alive
    /\ IF ~verifyLightExists(id) THEN Throw("setColor", LightNotFound)
       ELSE /\ lights' = [lights EXCEPT ![id].color = color]
            /\ Return("setColor", 0)
            /\ UNCHANGED <<groups, groupIdCounter, lightIdCounter, timers, ever>>

(* Variant: the new id is the number of lights plus one. *)
addLightCountsLights ==
    /\ Alive
    /\ lights' = put(lights, Cardinality(DOMAIN lights) + 1,
                     DefaultLight(Cardinality(DOMAIN lights) + 1))
    /\ lightIdCounter' = lightIdCounter + 1
    /\ Return("addLight", Cardinality(DOMAIN lights) + 1)
    /\ ever' = [ever EXCEPT !.lights = @ \cup {Cardinality(DOMAIN lights) + 1}]
    /\ UNCHANGED <<groups, groupIdCounter, timers>>

addLight ==
    /\ Alive
    /\ lights' = put(lights, lightIdCounter, DefaultLight(lightIdCounter))
    /\ lightIdCounter' = lightIdCounter + 1
    /\ Return("addLight", lightIdCounter)
    /\ ever' = [ever EXCEPT !.lights = @ \cup {lightIdCounter}]
    /\ UNCHANGED <<groups, groupIdCounter, timers>>

(* Variant: the group id is taken from the counter before the members   *)
(* are verified.                                                        *)
createGroupCountsFirst(name, lightIds) ==
    /\ Alive
    /\ groupIdCounter' = groupIdCounter + 1
    /\ IF \E i \in 1..Len(lightIds) : ~verifyLightExists(lightIds[i])
       THEN /\ op' = "createGroup"
            /\ err' = LightNotFound
            /\ ret' = 0
            /\ toggled' = <<>>
            /\ UNCHANGED <<lights, groups, lightIdCounter, timers, now,
                           uncaught, ever>>
       ELSE /\ groups' = put(groups, groupIdCounter,
                   [id |-> groupIdCounter, name |-> name, lightIds |-> lightIds])
            /\ Return("createGroup", groupIdCounter)
            /\ ever' = [ever EXCEPT !.groups = @ \cup {groupIdCounter}]
            /\ UNCHANGED <<lights, lightIdCounter, timers>>

RECURSIVE unique(_)
(* ids without the repetitions of an id *)
unique(ids) ==
    IF ids = <<>> THEN <<>>
    ELSE <<Head(ids)>> \o unique(filterNot(Tail(ids), Head(ids)))

(* Variant: the member list is stored without repeated ids. *)
createGroupDedups(name, lightIds) ==
    /\ Alive
    /\ IF \E i \in 1..Len(lightIds) : ~verifyLightExists(lightIds[i])
       THEN Throw("createGroup", LightNotFound)
       ELSE /\ groups' = put(groups, groupIdCounter,
                   [id |-> groupIdCounter, name |-> name,
                    lightIds |-> unique(lightIds)])
            /\ groupIdCounter' = groupIdCounter + 1
            /\ Return("createGroup", groupIdCounter)
            /\ ever' = [ever EXCEPT !.groups = @ \cup {groupIdCounter}]
            /\ UNCHANGED <<lights, lightIdCounter, timers>>

createGroup(name, lightIds) ==
    /\ Alive
    /\ IF \E i \in 1..Len(lightIds) : ~verifyLightExists(lightIds[i])
       THEN Throw("createGroup", LightNotFound)
       ELSE /\ groups' = put(groups, groupIdCounter,
                   [id |-> groupIdCounter, name |-> name, lightIds |-> lightIds])
            /\ groupIdCounter' = groupIdCounter + 1
            /\ Return("createGroup", groupIdCounter)
            /\ ever' = [ever EXCEPT !.groups = @ \cup {groupIdCounter}]
            /\ UNCHANGED <<lights, lightIdCounter, timers>>

RECURSIVE forEachToggleBackwards(_, _, _)
(* Variant: the loop runs from the last member to the first. *)
forEachToggleBackwards(L, ids, action) ==
    IF ids = <<>> THEN [lights |-> L, err |-> NoError, toggled |-> <<>>]
    ELSE IF ids[Len(ids)] \notin DOMAIN L
         THEN [lights |-> L, err |-> LightNotFound, toggled |-> <<>>]
    ELSE LET rest == forEachToggleBackwards(
                         setStatus(L, ids[Len(ids)], action),
                         SubSeq(ids, 1, Len(ids) - 1), action)
         IN  [rest EXCEPT !.toggled = <<ids[Len(ids)]>> \o @]

RECURSIVE forEachToggle(_, _, _)
(* group.lightIds.forEach(id => turnOn(id) / turnOff(id)): the lights after *)
(* the loop, the members switched in the order of the loop, and the error   *)
(* that ended it, the first missing member's.                               *)
forEachToggle(L, ids, action) ==
    IF ids = <<>> THEN [lights |-> L, err |-> NoError, toggled |-> <<>>]
    ELSE IF Head(ids) \notin DOMAIN L
         THEN [lights |-> L, err |-> LightNotFound, toggled |-> <<>>]
    ELSE LET rest == forEachToggle(setStatus(L, Head(ids), action),
                                   Tail(ids), action)
         IN  [rest EXCEPT !.toggled = <<Head(ids)>> \o @]

controlGroup(groupId, action) ==
    /\ Alive
    /\ IF groupId \notin DOMAIN groups THEN Throw("controlGroup", GroupNotFound)
       ELSE LET done == forEachToggle(lights, groups[groupId].lightIds, action)
            IN  /\ lights' = done.lights
                /\ Switched("controlGroup", done.err, done.toggled)
                /\ UNCHANGED <<groups, groupIdCounter, lightIdCounter, timers,
                               ever>>

addLightToGroup(groupId, lightId) ==
    /\ Alive
    /\ IF ~verifyLightExists(lightId)
       THEN Throw("addLightToGroup", LightNotFound)
       ELSE IF groupId \notin DOMAIN groups
            THEN Throw("addLightToGroup", GroupNotFound)
       ELSE /\ groups' =
                 IF ~includes(groups[groupId].lightIds, lightId)
                 THEN [groups EXCEPT ![groupId].lightIds = Append(@, lightId)]
                 ELSE groups
            /\ Return("addLightToGroup", 0)
            /\ UNCHANGED <<lights, groupIdCounter, lightIdCounter, timers, ever>>

(* Variant: the light is removed from the member list of every group. *)
removeLightFromGroupEverywhere(groupId, lightId) ==
    /\ Alive
    /\ IF groupId \notin DOMAIN groups
       THEN Throw("removeLightFromGroup", GroupNotFound)
       ELSE /\ groups' = [g \in DOMAIN groups |->
                   [groups[g] EXCEPT !.lightIds = filterNot(@, lightId)]]
            /\ Return("removeLightFromGroup", 0)
            /\ UNCHANGED <<lights, groupIdCounter, lightIdCounter, timers, ever>>

removeLightFromGroup(groupId, lightId) ==
    /\ Alive
    /\ IF groupId \notin DOMAIN groups
       THEN Throw("removeLightFromGroup", GroupNotFound)
       ELSE /\ groups' = [groups EXCEPT ![groupId].lightIds = filterNot(@, lightId)]
            /\ Return("removeLightFromGroup", 0)
            /\ UNCHANGED <<lights, groupIdCounter, lightIdCounter, timers, ever>>

(* Variant: the groups are left as they are. *)
scrubNothing(G, lightId) == G

(* every group's member list without lightId *)
scrub(G, lightId) ==
    [g \in DOMAIN G |-> [G[g] EXCEPT !.lightIds = filterNot(@, lightId)]]

deleteLightFromGroup(lightId) ==
    /\ Alive
    /\ IF ~verifyLightExists(lightId)
       THEN Throw("deleteLightFromGroup", LightNotFound)
       ELSE /\ groups' = scrub(groups, lightId)
            /\ lights' = del(lights, lightId)
            /\ Return("deleteLightFromGroup", 0)
            /\ UNCHANGED <<groupIdCounter, lightIdCounter, timers, ever>>

(* Variant: the lights of the group are deleted with it. *)
deleteGroupCascades(groupId) ==
    /\ Alive
    /\ IF groupId \notin DOMAIN groups THEN Throw("deleteGroup", GroupNotFound)
       ELSE /\ groups' = del(groups, groupId)
            /\ lights' = [l \in {k \in DOMAIN lights :
                                    ~includes(groups[groupId].lightIds, k)}
                            |-> lights[l]]
            /\ Return("deleteGroup", 0)
            /\ UNCHANGED <<groupIdCounter, lightIdCounter, timers, ever>>

deleteGroup(groupId) ==
    /\ Alive
    /\ IF groupId \notin DOMAIN groups THEN Throw("deleteGroup", GroupNotFound)
       ELSE /\ groups' = del(groups, groupId)
            /\ Return("deleteGroup", 0)
            /\ UNCHANGED <<lights, groupIdCounter, lightIdCounter, timers, ever>>

saveState ==
    /\ Alive
    /\ Return("saveState", 0)
    /\ UNCHANGED <<store, timers, ever>>

loadState ==
    /\ Alive
    /\ Return("loadState", 0)
    /\ UNCHANGED <<store, timers, ever>>

---------------------------------------------------------------------------
(* Action scheduling *)

(* A number that may be NaN *)
Num(v) == [nan |-> FALSE, v |-> v]

NaN == [nan |-> TRUE, v |-> 0]

(* new Date(time).getTime(): NaN for a string that is no date *)
getTime(time) == IF time.valid THEN Num(time.t) ELSE NaN

(* Variant: the operands of the subtraction are swapped. *)
calculateDelaySwapped(time) ==
    IF getTime(time).nan THEN NaN ELSE Num(now - getTime(time).v)

(* targetTime.getTime() - now.getTime() *)
calculateDelay(time) ==
    LET target == getTime(time)
    IN  IF target.nan THEN NaN ELSE Num(target.v - now)

(* delay < 0, which is false of NaN *)
isNegative(delay) == ~delay.nan /\ delay.v < 0

(* The delay setTimeout uses: 1 unless the one given is in 1..TIMEOUT_MAX *)
timerDelay(delay) ==
    IF delay.nan THEN 1
    ELSE IF delay.v < 1 THEN 1
    ELSE IF delay.v > TIMEOUT_MAX THEN 1
    ELSE delay.v

(* What setTimeout(callback, delay) adds to the pending timers *)
setTimeout(id, time, action, delay) ==
    Append(timers, [id |-> id, action |-> action, time |-> time,
                    due |-> now + timerDelay(delay)])

(* Variant: the timer is registered before the delay is examined. *)
scheduleActionTimerFirst(id, time, action) ==
    /\ Alive
    /\ IF ~verifyLightExists(id) THEN Throw("scheduleAction", LightNotFound)
       ELSE /\ timers' = setTimeout(id, time, action, calculateDelay(time))
            /\ op' = "scheduleAction"
            /\ err' = IF isNegative(calculateDelay(time)) THEN PastTime
                       ELSE NoError
            /\ ret' = 0
            /\ toggled' = <<>>
            /\ UNCHANGED <<store, now, uncaught, ever>>

scheduleAction(id, time, action) ==
    /\ Alive
    /\ IF ~verifyLightExists(id) THEN Throw("scheduleAction", LightNotFound)
       ELSE IF isNegative(calculateDelay(time))
            THEN Throw("scheduleAction", PastTime)
       ELSE /\ timers' = setTimeout(id, time, action, calculateDelay(time))
            /\ Return("scheduleAction", 0)
            /\ UNCHANGED <<store, ever>>

(* The clock advances. *)
Tick ==
    /\ Alive
    /\ now' = now + 1
    /\ UNCHANGED <<store, timers, op, err, ret, toggled, uncaught, ever>>

(* The event loop runs a timer that is due, the earliest due first. *)
isDue(i) ==
    /\ timers[i].due <= now
    /\ \A j \in 1..Len(timers) : timers[i].due <= timers[j].due

(* Variant: the callback stores the light anew instead of verifying it. *)
callbackUpserts(t) ==
    /\ lights' = put(lights, t.id, [DefaultLight(t.id) EXCEPT !.status = t.action])
    /\ UNCHANGED uncaught

(* The callback of scheduleAction: turnOn / turnOff of the light, whose      *)
(* verifyLightExists throws out of the callback when the light is gone.      *)
callback(t) ==
    IF ~verifyLightExists(t.id)
    THEN /\ uncaught' = LightNotFound
         /\ UNCHANGED lights
    ELSE /\ lights' = setStatus(lights, t.id, t.action)
         /\ UNCHANGED uncaught

Fire(i) ==
    /\ Alive
    /\ i \in 1..Len(timers)
    /\ isDue(i)
    /\ timers' = removeAt(timers, i)
    /\ callback(timers[i])
    /\ UNCHANGED <<groups, groupIdCounter, lightIdCounter, now, op, err, ret,
                   toggled, ever>>

---------------------------------------------------------------------------
(* The HTTP layer: /login, auth, rateLimit, the routes, the error handler *)

(* rateLimit(100, ...), counted in requests of the model *)
LIMIT == 2

(* The 15 * 60 * 1000 ms a timestamp stays in rateLimit's list, in ticks *)
WINDOW == 2

(* The configured pair, as the characters of the two strings *)
BASIC_AUTH_USER == <<"u">>
BASIC_AUTH_PASSWORD == <<"p">>

(* What the second token of an Authorization header decodes to from      *)
(* base64, as characters.                                                *)
CredentialInputs ==
    { <<"u", ":", "p">>, <<"u", ":", "x">>, <<"x", ":", "p">>,
      <<"u", ":", "p", ":", "x">>, <<"u", "p">> }

(* An Authorization header as its tokens between blanks: none (no       *)
(* header), a scheme alone, or a scheme and credentials.                *)
HeaderInputs ==
    {<<>>, <<"Basic">>, <<"Bearer", <<"u", ":", "p">>>>}
        \cup {<<"Basic", text>> : text \in CredentialInputs}

(* Route parameters: one that validateId refuses, the id of a light of   *)
(* the constructor, an id no light has; and the same for groups.         *)
ParamInputs == {0, 1, MaxLightId + 1}
GroupParamInputs == 0..(MaxGroupId + 1)

RECURSIVE split(_, _)
(* String.prototype.split(separator) *)
split(text, separator) ==
    IF \A i \in 1..Len(text) : text[i] # separator THEN <<text>>
    ELSE LET i == CHOOSE k \in 1..Len(text) :
                      /\ text[k] = separator
                      /\ \A j \in 1..(k - 1) : text[j] # separator
         IN  <<SubSeq(text, 1, i - 1)>>
                 \o split(SubSeq(text, i + 1, Len(text)), separator)

(* No LightService operation was called for the request. *)
NotCalled ==
    /\ op' = "none"
    /\ err' = NoError
    /\ ret' = 0
    /\ toggled' = <<>>
    /\ UNCHANGED <<store, timers, now, uncaught, ever>>

(* auth: "next" when the request may pass, "401" when it is answered     *)
(* Unauthorized, "throw" when Buffer.from(undefined) throws a TypeError, *)
(* which the error handler answers.                                      *)
auth(authHeader) ==
    IF ~LOGIN_REQUIRED THEN "next"
    ELSE IF authHeader = <<>> THEN "401"
    ELSE IF Len(authHeader) < 2 THEN "throw"
    ELSE LET parts == split(authHeader[2], ":")
         IN  IF /\ Len(parts) >= 2
                /\ parts[1] = BASIC_AUTH_USER
                /\ parts[2] = BASIC_AUTH_PASSWORD
             THEN "next"
             ELSE "401"

(* Variant: no timestamp ever leaves the list. *)
recentKeepsAll(ip) == requests[ip]

(* requests[ip].filter(timestamp => Date.now() - timestamp < 15 min) *)
recent(ip) == SelectSeq(requests[ip], LAMBDA timestamp : now - timestamp < WINDOW)

(* Variant: the request is refused only above the limit. *)
limitedAbove(ip) == Len(recent(ip)) > LIMIT

(* requests[ip].length >= limit *)
limited(ip) == Len(recent(ip)) >= LIMIT

(* asyncHandler: res.json after the call returned, or the error handler's *)
(* 500 after it threw.                                                    *)
respond == statusCode' = IF err' = NoError THEN 200 ELSE 500

(* validateId: isNaN(id) || id < 1 answers 400 *)
validateId(id) == id >= 1

(* GET /lights *)
getLights ==
    /\ Alive
    /\ Return("getAllLights", 0)
    /\ UNCHANGED <<store, timers, ever>>
    /\ respond

(* POST /lights/:id/on *)
postLightOn(id) ==
    IF ~validateId(id)
    THEN Alive /\ NotCalled /\ statusCode' = 400
    ELSE turnOn(id) /\ respond

(* POST /lights *)
postLights == addLight /\ respond

(* POST /groups with a string for name and an array for lightIds *)
postGroups(name, lightIds) == createGroup(name, lightIds) /\ respond

(* Variant: the route removes the light from the named group only. *)
deleteRemoveLightScoped(groupId, lightId) ==
    IF ~validateId(groupId)
    THEN Alive /\ NotCalled /\ statusCode' = 400
    ELSE removeLightFromGroup(groupId, lightId) /\ respond

(* DELETE /groups/:id/remove-light/:lightId *)
deleteRemoveLight(groupId, lightId) ==
    IF ~validateId(groupId)
    THEN Alive /\ NotCalled /\ statusCode' = 400
    ELSE deleteLightFromGroup(lightId) /\ respond

(* POST /login, which is registered before auth and rateLimit *)
postLogin(username, password) ==
    /\ Alive
    /\ NotCalled
    /\ statusCode' =
           IF ~LOGIN_REQUIRED THEN 200
           ELSE IF username = BASIC_AUTH_USER /\ password = BASIC_AUTH_PASSWORD
                THEN 200
           ELSE 401
    /\ UNCHANGED <<LOGIN_REQUIRED, requests, served, rejected>>

(* A request of ip with the Authorization header authHeader to a route    *)
(* behind app.use(auth) and app.use(rateLimit(...)), whose handler is     *)
(* Handler.                                                               *)
Request(ip, authHeader, Handler) ==
    /\ Alive
    /\ UNCHANGED LOGIN_REQUIRED
    /\ IF auth(authHeader) = "401"
       THEN /\ NotCalled
            /\ statusCode' = 401
            /\ UNCHANGED <<requests, served, rejected>>
       ELSE IF auth(authHeader) = "throw"
       THEN /\ NotCalled
            /\ statusCode' = 500
            /\ UNCHANGED <<requests, served, rejected>>
       ELSE IF limited(ip)
       THEN /\ requests' = [requests EXCEPT ![ip] = recent(ip)]
            /\ rejected' = [rejected EXCEPT ![ip] = <<now>>]
            /\ NotCalled
            /\ statusCode' = 429
            /\ UNCHANGED served
       ELSE /\ requests' = [requests EXCEPT ![ip] = Append(recent(ip), now)]
            /\ served' = [served EXCEPT ![ip] = Append(@, now)]
            /\ UNCHANGED rejected
            /\ Handler

(* A request to one of the routes behind the middleware *)
AnyRequest(ip, authHeader) ==
    \/ Request(ip, authHeader, getLights)
    \/ \E id \in ParamInputs : Request(ip, authHeader, postLightOn(id))

---------------------------------------------------------------------------
(* Specifications *)

(* The guards on the counters, the timers and the clock keep the model     *)
(* finite; they are no part of the operations.                             *)
(* In the specifications of the service alone its operations are called   *)
(* directly: no request passes the middleware and none is answered.       *)
LightOps ==
    \/ \E id \in IdInputs : turnOn(id) /\ UNCHANGED http
    \/ \E id \in IdInputs : turnOff(id) /\ UNCHANGED http
    \/ \E id \in IdInputs, b \in BrightnessInputs :
           setBrightness(id, b) /\ UNCHANGED http
    \/ \E id \in IdInputs, c \in ColorInputs :
           setColor(id, c) /\ UNCHANGED http

StoreOps ==
    \/ lightIdCounter <= MaxLightId /\ addLight /\ UNCHANGED http
    \/ \E id \in IdInputs : deleteLightFromGroup(id) /\ UNCHANGED http

CreateOps ==
    /\ groupIdCounter <= MaxGroupId
    /\ \E name \in NameInputs, ids \in LightIdsInputs : createGroup(name, ids)
    /\ UNCHANGED http

GroupOps ==
    \/ CreateOps
    \/ \E g \in GroupIdInputs, id \in IdInputs :
           addLightToGroup(g, id) /\ UNCHANGED http
    \/ \E g \in GroupIdInputs, id \in IdInputs :
           removeLightFromGroup(g, id) /\ UNCHANGED http
    \/ \E g \in GroupIdInputs : deleteGroup(g) /\ UNCHANGED http

ControlOps ==
    \E g \in GroupIdInputs, a \in Actions : controlGroup(g, a) /\ UNCHANGED http

TimerOps ==
    \/ /\ now < MaxTime
       /\ Len(timers) < MaxTimers
       /\ \E id \in IdInputs, t \in TimeInputs, a \in Actions :
              scheduleAction(id, t, a)
       /\ UNCHANGED http
    \/ now < MaxTime /\ Tick /\ UNCHANGED http
    \/ \E i \in 1..MaxTimers : Fire(i) /\ UNCHANGED http

(* The whole service *)
Next ==
    \/ LightOps
    \/ StoreOps
    \/ GroupOps
    \/ ControlOps
    \/ saveState /\ UNCHANGED http
    \/ loadState /\ UNCHANGED http
    \/ TimerOps

Spec == Init /\ [][Next]_vars

(* The entity store: lights and groups created, changed and deleted *)
StoreNext == StoreOps \/ GroupOps

StoreSpec == Init /\ [][StoreNext]_vars

(* Creation and deletion of lights and groups: the operations that move the
   id counters and the key sets of both maps.  Membership edits of an
   existing group (addLightToGroup, removeLightFromGroup) touch neither. *)
LifecycleNext ==
    \/ StoreOps
    \/ CreateOps
    \/ \E g \in GroupIdInputs : deleteGroup(g) /\ UNCHANGED http

LifecycleSpec == Init /\ [][LifecycleNext]_vars

(* The lights: added, deleted, switched, dimmed and coloured *)
LightNext == LightOps \/ StoreOps

LightSpec == Init /\ [][LightNext]_vars

(* Groups under control: a group is created of lights that were dimmed,   *)
(* coloured or deleted, and switched as a whole.                          *)
ControlNext ==
    \/ \E id \in IdInputs : deleteLightFromGroup(id) /\ UNCHANGED http
    \/ \E id \in IdInputs, b \in BrightnessInputs :
           setBrightness(id, b) /\ UNCHANGED http
    \/ \E id \in IdInputs, c \in ColorInputs :
           setColor(id, c) /\ UNCHANGED http
    \/ CreateOps
    \/ ControlOps

ControlSpec == Init /\ [][ControlNext]_vars

(* Groups created one after another, of lights of which some get deleted *)
GroupingNext ==
    \/ \E id \in IdInputs : deleteLightFromGroup(id) /\ UNCHANGED http
    \/ /\ groupIdCounter <= MaxGroupId + 1
       /\ \E name \in NameInputs, ids \in LightIdsInputs :
              createGroup(name, ids)
       /\ UNCHANGED http

GroupingSpec == Init /\ [][GroupingNext]_vars

(* Membership: lights are added, groups are created one after another of  *)
(* ordered member lists, and members are removed from them.              *)
MembershipNext ==
    \/ lightIdCounter <= MaxLightId /\ addLight /\ UNCHANGED http
    \/ /\ groupIdCounter <= MaxGroupId + 1
       /\ \E name \in NameInputs, ids \in MemberInputs : createGroup(name, ids)
       /\ UNCHANGED http
    \/ \E g \in GroupIdInputs, id \in IdInputs :
           removeLightFromGroup(g, id) /\ UNCHANGED http

MembershipSpec == Init /\ [][MembershipNext]_vars

(* Groups disbanded: lights are switched on, dimmed and coloured, groups  *)
(* are created one after another and deleted.                             *)
DisbandNext ==
    \/ \E id \in IdInputs : turnOn(id) /\ UNCHANGED http
    \/ \E id \in IdInputs, b \in BrightnessInputs :
           setBrightness(id, b) /\ UNCHANGED http
    \/ \E id \in IdInputs, c \in ColorInputs :
           setColor(id, c) /\ UNCHANGED http
    \/ /\ groupIdCounter <= MaxGroupId + 1
       /\ \E name \in NameInputs, ids \in MemberInputs : createGroup(name, ids)
       /\ UNCHANGED http
    \/ \E g \in GroupIdInputs : deleteGroup(g) /\ UNCHANGED http

DisbandSpec == Init /\ [][DisbandNext]_vars

(* The routes that create and delete, called past the middleware *)
RouteNext ==
    \/ /\ lightIdCounter <= MaxLightId
       /\ postLights
       /\ UNCHANGED <<LOGIN_REQUIRED, requests, served, rejected>>
    \/ /\ groupIdCounter <= MaxGroupId
       /\ \E name \in NameInputs, ids \in LightIdsInputs : postGroups(name, ids)
       /\ UNCHANGED <<LOGIN_REQUIRED, requests, served, rejected>>
    \/ /\ \E g \in GroupParamInputs, id \in IdInputs : deleteRemoveLight(g, id)
       /\ UNCHANGED <<LOGIN_REQUIRED, requests, served, rejected>>

RouteSpec == Init /\ [][RouteNext]_vars

(* Requests of several clients through /login, auth and rateLimit while  *)
(* the clock runs until the first timestamps have left the window.       *)
HttpNext ==
    \/ \E ip \in IPs, authHeader \in HeaderInputs : AnyRequest(ip, authHeader)
    \/ \E username, password \in {BASIC_AUTH_USER, BASIC_AUTH_PASSWORD} :
           postLogin(username, password)
    \/ now < WINDOW /\ Tick /\ UNCHANGED http

HttpSpec == HttpInit /\ [][HttpNext]_vars

(* The core with all its parts in use: lights deleted, groups created and *)
(* deleted, and one scheduled action registered and left pending (timers  *)
(* fire in SchedSpec).                                                    *)
CoreNext ==
    \/ \E id \in IdInputs : deleteLightFromGroup(id) /\ UNCHANGED http
    \/ CreateOps
    \/ \E g \in GroupIdInputs : deleteGroup(g) /\ UNCHANGED http
    \/ /\ now < MaxTime
       /\ timers = <<>>
       /\ \E id \in IdInputs, t \in TimeInputs, a \in Actions :
              scheduleAction(id, t, a)
       /\ UNCHANGED http
    \/ now < MaxTime /\ Tick /\ UNCHANGED http

CoreSpec == Init /\ [][CoreNext]_vars

(* The action scheduler beside the deletion of lights *)
SchedNext ==
    \/ \E id \in IdInputs : deleteLightFromGroup(id) /\ UNCHANGED http
    \/ TimerOps

SchedSpec == Init /\ [][SchedNext]_vars

(* The event loop keeps its clock running and runs every timer that is due. *)
FairSchedSpec ==
    /\ SchedSpec
    /\ WF_vars(now < MaxTime /\ Tick /\ UNCHANGED http)
    /\ WF_vars(\E i \in 1..MaxTimers : Fire(i) /\ UNCHANGED http)

---------------------------------------------------------------------------
(* Properties of the entity store *)

members(g) == groups[g].lightIds

(* No step of the operation A can end other than as Post says. *)
Always(A, Post) == ~ENABLED (A /\ ~Post)

(* C1: in every reachable state, every light id in any group's member     *)
(* list is the id of a light that exists in the store.                    *)
C1_MembersExist ==
    \A g \in DOMAIN groups :
        \A i \in 1..Len(members(g)) : members(g)[i] \in DOMAIN lights

(* C1 witness: a group still has a member after a light was deleted. *)
C1_Witness ==
    /\ \E id \in ever.lights : id \notin DOMAIN lights
    /\ \E g \in DOMAIN groups : Len(members(g)) > 0

(* What addLight returns: a new light's id, 3 at first, above every light *)
(* id that ever existed and below the advanced counter; the group counter *)
(* stays.                                                                 *)
FreshLightId ==
    /\ err' = NoError
    /\ ret' \in DOMAIN lights'
    /\ \A id \in ever.lights \cup DOMAIN lights : id < ret'
    /\ (ever.lights = {1, 2} => ret' = 3)
    /\ lightIdCounter' > ret'
    /\ groupIdCounter' = groupIdCounter

(* What a successful createGroup returns: the new group's id, 1 at first, *)
(* above every group id that ever existed and below the advanced counter; *)
(* the light counter stays.                                               *)
FreshGroupId ==
    err' = NoError =>
        /\ ret' \in DOMAIN groups'
        /\ \A g \in ever.groups \cup DOMAIN groups : g < ret'
        /\ (ever.groups = {} => ret' = 1)
        /\ groupIdCounter' > ret'
        /\ lightIdCounter' = lightIdCounter

(* C2: ids are never reused.  In every reachable state every light id and *)
(* group id that ever existed is below its counter, addLight can only     *)
(* return a fresh light id and createGroup a fresh group id, each         *)
(* leaving the other counter alone.                                       *)
C2_NoIdReuse ==
    /\ \A id \in ever.lights \cup DOMAIN lights : id < lightIdCounter
    /\ \A g \in ever.groups \cup DOMAIN groups : g < groupIdCounter
    /\ Always(addLight, FreshLightId)
    /\ \A name \in NameInputs, ids \in LightIdsInputs :
           Always(createGroup(name, ids), FreshGroupId)

(* C2 witness: after light 2 was deleted addLight returned 3, and a group *)
(* was created and deleted.                                               *)
C2_Witness ==
    /\ op = "addLight"
    /\ ret = 3
    /\ DOMAIN lights = {1, 3}
    /\ ever.groups = {1}
    /\ DOMAIN groups = {}

(* The call failed and left lights, groups and both counters alone. *)
FailedUnchanged ==
    /\ err' # NoError
    /\ UNCHANGED store

(* C3: createGroup with an id in lightIds that no light has fails and     *)
(* leaves lights, groups and both counters as they were.                  *)
C3_CreateGroupAllOrNothing ==
    \A name \in NameInputs, ids \in LightIdsInputs :
        (\E i \in 1..Len(ids) : ids[i] \notin DOMAIN lights) =>
            Always(createGroup(name, ids), FailedUnchanged)

(* C3 witness: a createGroup has failed and no group was ever created. *)
C3_Witness ==
    /\ op = "createGroup"
    /\ err = LightNotFound
    /\ groupIdCounter = 1
    /\ ever.groups = {}

(* The light id is gone from the store and from every group's member      *)
(* list; the other members keep their order, and the other lights, the    *)
(* set of groups and the counters are as before.                          *)
Deleted(id) ==
    /\ err' = NoError
    /\ DOMAIN lights' = DOMAIN lights \ {id}
    /\ \A l \in DOMAIN lights' : lights'[l] = lights[l]
    /\ DOMAIN groups' = DOMAIN groups
    /\ \A g \in DOMAIN groups :
         /\ groups'[g].lightIds = SelectSeq(members(g), LAMBDA x : x # id)
         /\ groups'[g].id = groups[g].id
         /\ groups'[g].name = groups[g].name
    /\ groupIdCounter' = groupIdCounter
    /\ lightIdCounter' = lightIdCounter

C5_NoDuplicateMembers ==
    \A g \in DOMAIN groups :
        \A i, j \in 1..Len(members(g)) :
            members(g)[i] = members(g)[j] => i = j

---------------------------------------------------------------------------
(* Properties of the action scheduler *)

(* C6: no error leaves a timer callback, also when the light of the       *)
(* scheduled action has been deleted before the timer fires.              *)
C6_NoErrorLeavesCallback == uncaught = NoError

(* The store is as before and the light id is still absent. *)
StillGone(id) ==
    /\ UNCHANGED store
    /\ id \notin DOMAIN lights'

(* C7: when the timer of an action fires whose light has been deleted,    *)
(* lights, groups and counters are what they were before the fire, and    *)
(* the deleted id is still absent.                                        *)
C7_NoResurrection ==
    \A i \in 1..Len(timers) :
        timers[i].id \notin DOMAIN lights =>
            Always(Fire(i), StillGone(timers[i].id))

(* C7 witness: a timer has fired for a light that had been deleted. *)
C7_Witness ==
    /\ uncaught = LightNotFound
    /\ DOMAIN lights # {1, 2}

(* C8: a scheduled action whose time string is a date changes the status  *)
(* of its light no earlier than that date.                                *)
C8_NeverBeforeFireTime ==
    [][\A i \in 1..MaxTimers :
          (Fire(i) /\ timers[i].time.valid /\ lights' # lights) =>
              timers[i].time.t <= now]_vars

(* C9: every scheduled action is consumed exactly once: while actions are *)
(* pending they are eventually all consumed, and a pending action leaves  *)
(* the timers only by firing.                                             *)
C9_ConsumedExactlyOnce ==
    /\ (Len(timers) > 0) ~> (Len(timers) = 0)
    /\ [][Len(timers') < Len(timers) =>
              \E i \in 1..MaxTimers :
                  /\ Fire(i)
                  /\ Len(timers') = Len(timers) - 1]_vars

(* The call failed, left the store alone and registered no timer. *)
Refused ==
    /\ FailedUnchanged
    /\ UNCHANGED timers

(* C10: scheduleAction with a date that is already past fails, leaves     *)
(* lights, groups and counters as they were and registers no timer.       *)
C10_PastTimeRejected ==
    \A id \in IdInputs, t \in TimeInputs, a \in Actions :
        (t.valid /\ t.t < now) =>
            Always(scheduleAction(id, t, a), Refused)

(* C10 witness: a scheduleAction was refused for its past date. *)
C10_Witness ==
    /\ op = "scheduleAction"
    /\ err = PastTime
    /\ now > 0

(* C23: scheduled actions are applied in the order of their fire times,   *)
(* in whatever order they were scheduled: when the timer of an action on  *)
(* an existing light fires, no action with an earlier fire time is still  *)
(* pending for that light, so that of two actions the later one decides   *)
(* the status the light is left with; a fire is one step, which no        *)
(* request operation interleaves.                                         *)
C23_FireTimeOrder ==
    [][\A i \in 1..MaxTimers :
          Fire(i) =>
              \A j \in 1..Len(timers) :
                  ( /\ timers[j].id = timers[i].id
                    /\ timers[i].id \in DOMAIN lights
                    /\ timers[i].time.valid
                    /\ timers[j].time.valid )
                      => timers[i].time.t <= timers[j].time.t]_vars

(* C24: scheduleAction with a time string that is no date fails,          *)
(* registers no timer and leaves the store as it was, and no timer that   *)
(* fires changes a light for a call whose time string was no date.        *)
C24_UnparsableTimeRejected ==
    /\ [][\A id \in IdInputs, t \in TimeInputs, a \in Actions :
             (~t.valid /\ scheduleAction(id, t, a)) => Refused]_vars
    /\ [][\A i \in 1..MaxTimers :
             (Fire(i) /\ lights' # lights) => timers[i].time.valid]_vars

---------------------------------------------------------------------------
(* Properties of failing calls *)

(* A call that failed has left lights, groups, both counters and the      *)
(* pending timers alone.                                                  *)
NothingCommitted == err' # NoError => (UNCHANGED store /\ UNCHANGED timers)

(* C11: every call of turnOn, turnOff, setBrightness, setColor,           *)
(* createGroup, addLightToGroup, removeLightFromGroup,                    *)
(* deleteLightFromGroup, deleteGroup or scheduleAction that fails, and    *)
(* every controlGroup of an absent group, leaves lights, groups, both id  *)
(* counters and the pending timers exactly as they were before the call.  *)
C11_FailuresCommitNothing ==
    /\ \A id \in IdInputs :
         /\ Always(turnOn(id), NothingCommitted)
         /\ Always(turnOff(id), NothingCommitted)
         /\ Always(deleteLightFromGroup(id), NothingCommitted)
         /\ \A b \in BrightnessInputs :
                Always(setBrightness(id, b), NothingCommitted)
         /\ \A c \in ColorInputs : Always(setColor(id, c), NothingCommitted)
         /\ \A t \in TimeInputs, a \in Actions :
                Always(scheduleAction(id, t, a), NothingCommitted)
    /\ \A name \in NameInputs, ids \in LightIdsInputs :
         Always(createGroup(name, ids), NothingCommitted)
    /\ \A g \in GroupIdInputs :
         /\ Always(deleteGroup(g), NothingCommitted)
         /\ \A id \in IdInputs :
              /\ Always(addLightToGroup(g, id), NothingCommitted)
              /\ Always(removeLightFromGroup(g, id), NothingCommitted)
         /\ \A a \in Actions :
              g \notin DOMAIN groups => Always(controlGroup(g, a), Refused)

(* C11 witness: a deleteLightFromGroup of an absent light has failed      *)
(* while a group with a member exists and a scheduled action is pending   *)
(* past the start of the clock.                                           *)
C11_Witness ==
    /\ op = "deleteLightFromGroup"
    /\ err = LightNotFound
    /\ \E g \in DOMAIN groups : Len(members(g)) > 0
    /\ Len(timers) > 0
    /\ now > 0

---------------------------------------------------------------------------
(* Properties of the lights *)

(* The call succeeded: getLight(id) now shows brightness b with the       *)
(* status and color of before, and every other light, the groups and the  *)
(* counters are as before.                                                *)
BrightnessIs(id, b) ==
    /\ err' = NoError
    /\ Len(getLight(id)') = 1
    /\ getLight(id)'[1].brightness = b
    /\ getLight(id)'[1].status = lights[id].status
    /\ getLight(id)'[1].color = lights[id].color
    /\ DOMAIN lights' = DOMAIN lights
    /\ \A l \in DOMAIN lights \ {id} : lights'[l] = lights[l]
    /\ UNCHANGED <<groups, groupIdCounter, lightIdCounter>>

(* C12: setBrightness(id, b) of an existing light succeeds for b in       *)
(* [0,100], after which getLight(id).brightness is b and nothing else has *)
(* changed, and fails for b outside [0,100], changing nothing; and in     *)
(* every reachable state every light's brightness is within [0,100].      *)
C12_Brightness ==
    /\ \A l \in DOMAIN lights : lights[l].brightness \in 0..100
    /\ \A id \in DOMAIN lights, b \in BrightnessInputs :
         IF b \in 0..100
         THEN Always(setBrightness(id, b), BrightnessIs(id, b))
         ELSE Always(setBrightness(id, b), FailedUnchanged)

(* C12 witness: setBrightness has set a light that is on and blue to 100  *)
(* while another light is at 0.                                           *)
C12_Witness ==
    /\ op = "setBrightness"
    /\ err = NoError
    /\ \E l, k \in DOMAIN lights :
         /\ lights[l].brightness = 100
         /\ lights[l].status = "on"
         /\ lights[l].color = "blue"
         /\ lights[k].brightness = 0

(* C17: setColor of an existing light with a value outside the palette    *)
(* fails and leaves the store as it was, and in every reachable state     *)
(* every light's color is one of white, blue, red, green, yellow.         *)
C17_ColorInPalette ==
    /\ [](\A l \in DOMAIN lights : lights[l].color \in LightColor)
    /\ [][\A id \in IdInputs, c \in ColorInputs \ LightColor :
             (id \in DOMAIN lights /\ setColor(id, c)) => FailedUnchanged]_vars

---------------------------------------------------------------------------
(* Properties of group control *)

(* The call returned: the members were switched in the order of the       *)
(* member list, every member's status is the action, and brightness,      *)
(* color, the lights that are no members, the groups and the counters     *)
(* are as before.                                                         *)
Controlled(g, a) ==
    /\ err' = NoError
    /\ toggled' = members(g)
    /\ DOMAIN lights' = DOMAIN lights
    /\ \A l \in DOMAIN lights :
         /\ lights'[l].status =
                IF includes(members(g), l) THEN a ELSE lights[l].status
         /\ lights'[l].brightness = lights[l].brightness
         /\ lights'[l].color = lights[l].color
         /\ lights'[l].id = lights[l].id
    /\ UNCHANGED <<groups, groupIdCounter, lightIdCounter>>

(* The call failed with the group's not-found error and changed nothing. *)
GroupMissing ==
    /\ err' = GroupNotFound
    /\ UNCHANGED store

(* C13: controlGroup(groupId, action) of an absent group fails with not   *)
(* found; of an existing group it returns with every member light's       *)
(* status equal to the action, the members switched in member-list order, *)
(* and brightness, color, the other lights, the groups and the counters   *)
(* unchanged.                                                             *)
C13_ControlGroup ==
    \A g \in GroupIdInputs, a \in Actions :
        IF g \in DOMAIN groups
        THEN Always(controlGroup(g, a), Controlled(g, a))
        ELSE Always(controlGroup(g, a), GroupMissing)

(* C13 witness: controlGroup has switched on the members 2 and 1, in that *)
(* order, of which one is dimmed to 100 and one is blue.                  *)
C13_Witness ==
    /\ op = "controlGroup"
    /\ err = NoError
    /\ toggled = <<2, 1>>
    /\ lights[1].status = "on"
    /\ lights[2].status = "on"
    /\ lights[1].brightness = 100
    /\ lights[2].color = "blue"

---------------------------------------------------------------------------
(* Properties of group creation and membership *)

(* The call returned the id of a group that did not exist before and      *)
(* whose member list is ids, element for element; the lights and the      *)
(* groups that existed are as before.                                     *)
GroupStored(ids) ==
    /\ err' = NoError
    /\ ret' \notin DOMAIN groups
    /\ DOMAIN groups' = DOMAIN groups \cup {ret'}
    /\ Len(groups'[ret'].lightIds) = Len(ids)
    /\ \A i \in 1..Len(ids) : groups'[ret'].lightIds[i] = ids[i]
    /\ \A g \in DOMAIN groups : groups'[g] = groups[g]
    /\ lights' = lights

(* C14: createGroup(name, lightIds) with every id of lightIds existing    *)
(* returns a new group id whose stored member list equals lightIds,       *)
(* element for element in the same order, and leaves all lights and all   *)
(* groups that existed before unchanged.                                  *)
C14_GroupStoredAsGiven ==
    \A name \in NameInputs, ids \in LightIdsInputs :
        (\A i \in 1..Len(ids) : ids[i] \in DOMAIN lights) =>
            Always(createGroup(name, ids), GroupStored(ids))

(* C14 witness: createGroup has returned group 2 with the members 2, 1    *)
(* beside group 1, which keeps its members.                               *)
C14_Witness ==
    /\ op = "createGroup"
    /\ err = NoError
    /\ ret = 2
    /\ DOMAIN groups = {1, 2}
    /\ members(2) = <<2, 1>>
    /\ members(1) = <<1, 2>>

(* How often id occurs in the member list ids *)
occurrences(ids, id) == Cardinality({i \in 1..Len(ids) : ids[i] = id})

(* The call succeeded: the group's list is the one of before, with id     *)
(* appended unless it was a member, and holds id once; the lights, the    *)
(* other groups and the counters are as before.                           *)
AddedOnce(g, id) ==
    /\ err' = NoError
    /\ groups'[g].lightIds =
           IF includes(members(g), id) THEN members(g)
           ELSE Append(members(g), id)
    /\ occurrences(groups'[g].lightIds, id) = 1
    /\ DOMAIN groups' = DOMAIN groups
    /\ \A h \in DOMAIN groups \ {g} : groups'[h] = groups[h]
    /\ UNCHANGED <<lights, groupIdCounter, lightIdCounter>>

(* C15: addLightToGroup(groupId, lightId) of an existing group and light  *)
(* appends the id unless it is a member already, after which the list     *)
(* holds the id once, so that a second call with the same arguments       *)
(* leaves the list as the first left it; with the group or the light      *)
(* absent it fails and changes nothing.                                   *)
C15_AddLightIdempotent ==
    [][\A g \in GroupIdInputs, id \in IdInputs :
          addLightToGroup(g, id) =>
              IF g \in DOMAIN groups /\ id \in DOMAIN lights
              THEN AddedOnce(g, id)
              ELSE FailedUnchanged]_vars

(* The call succeeded: the group's list is the one of before without id,  *)
(* the members that remain in the order they had; the group's id and      *)
(* name, the other groups, the lights and the counters are as before.     *)
RemovedFromGroup(g, id) ==
    /\ err' = NoError
    /\ DOMAIN groups' = DOMAIN groups
    /\ groups'[g].lightIds = SelectSeq(members(g), LAMBDA x : x # id)
    /\ groups'[g].id = groups[g].id
    /\ groups'[g].name = groups[g].name
    /\ (~includes(members(g), id) => groups' = groups)
    /\ \A h \in DOMAIN groups \ {g} : groups'[h] = groups[h]
    /\ UNCHANGED <<lights, groupIdCounter, lightIdCounter>>

(* C21: removeLightFromGroup(groupId, lightId) of an absent group fails   *)
(* with not found; of an existing group it succeeds and removes lightId   *)
(* from that group's member list only, changing nothing when lightId is   *)
(* no member, keeping the order of the members that remain, and leaving   *)
(* the light in the store and every other group as they were.             *)
C21_RemoveFromGroupOnly ==
    \A g \in GroupIdInputs, id \in IdInputs :
        IF g \in DOMAIN groups
        THEN Always(removeLightFromGroup(g, id), RemovedFromGroup(g, id))
        ELSE Always(removeLightFromGroup(g, id), GroupMissing)

(* C21 witness: light 2 was removed from between 3 and 1 in group 1 and   *)
(* is still a light and a member of group 2.                              *)
C21_Witness ==
    /\ op = "removeLightFromGroup"
    /\ err = NoError
    /\ DOMAIN groups = {1, 2}
    /\ members(1) = <<3, 1>>
    /\ members(2) = <<1, 2, 3>>
    /\ 2 \in DOMAIN lights

(* The call succeeded: the group is gone, the other groups are as before, *)
(* and so are all lights, the group's members among them, and both        *)
(* counters.                                                              *)
GroupDeleted(g) ==
    /\ err' = NoError
    /\ DOMAIN groups' = DOMAIN groups \ {g}
    /\ \A h \in DOMAIN groups \ {g} : groups'[h] = groups[h]
    /\ DOMAIN lights' = DOMAIN lights
    /\ \A l \in DOMAIN lights :
         /\ lights'[l].status = lights[l].status
         /\ lights'[l].brightness = lights[l].brightness
         /\ lights'[l].color = lights[l].color
         /\ lights'[l].id = lights[l].id
    /\ groupIdCounter' = groupIdCounter
    /\ lightIdCounter' = lightIdCounter

(* C22: deleteGroup(groupId) of an absent group fails with not found; of  *)
(* an existing group it removes that group record and nothing else: every *)
(* light, the former members with their status, brightness and color      *)
(* among them, every other group and both counters are as before.         *)
C22_DeleteGroupOnly ==
    \A g \in GroupIdInputs :
        IF g \in DOMAIN groups
        THEN Always(deleteGroup(g), GroupDeleted(g))
        ELSE Always(deleteGroup(g), GroupMissing)

(* C22 witness: group 1 was deleted; its member light 1 is still on, at   *)
(* brightness 100 and blue, and group 2 keeps its members.                *)
C22_Witness ==
    /\ op = "deleteGroup"
    /\ err = NoError
    /\ ever.groups = {1, 2}
    /\ DOMAIN groups = {2}
    /\ members(2) = <<2, 1>>
    /\ lights[1].status = "on"
    /\ lights[1].brightness = 100
    /\ lights[1].color = "blue"

---------------------------------------------------------------------------
(* Properties of the HTTP layer *)

(* The errors of the core by kind *)
NotFoundErrors == {LightNotFound, GroupNotFound}
InvalidArgumentErrors == {BrightnessRange, PastTime}

(* The last call failed for an argument that is not valid: a value out of *)
(* range, a time in the past, or an unknown member given to createGroup.  *)
invalidArgument ==
    \/ err \in InvalidArgumentErrors
    \/ op = "createGroup" /\ err = LightNotFound

(* C16: a request whose LightService call fails with not found (an absent *)
(* light or group) is answered 404, one whose call fails for an invalid   *)
(* argument (a value out of range, an unknown member in createGroup, a    *)
(* time in the past) is answered 400, and 500 answers only other errors.  *)
C16_ErrorsReportedByKind ==
    /\ (err \in NotFoundErrors /\ ~invalidArgument) => statusCode = 404
    /\ invalidArgument => statusCode = 400
    /\ statusCode = 500 => err \notin NotFoundErrors \cup InvalidArgumentErrors

(* The number of requests of ip that passed rateLimit in the WINDOW ticks *)
(* up to t                                                                *)
servedIn(ip, t) ==
    Cardinality({i \in 1..Len(served[ip]) :
                    t - WINDOW < served[ip][i] /\ served[ip][i] <= t})

(* The request was answered 429 and no LightService operation ran. *)
TooMany ==
    /\ statusCode' = 429
    /\ op' = "none"
    /\ UNCHANGED <<store, timers, served>>

(* The request passed rateLimit and was counted. *)
Admitted(ip) ==
    /\ statusCode' # 429
    /\ served'[ip] = Append(served[ip], now)

(* What rateLimit keeps of the other clients is as before. *)
Apart(ip) ==
    \A other \in IPs \ {ip} :
        /\ requests'[other] = requests[other]
        /\ served'[other] = served[other]

(* C18: for every IP and every instant, at most LIMIT requests of that IP *)
(* were passed on by rateLimit in the WINDOW before it; a request that    *)
(* reaches rateLimit when LIMIT requests of its IP were passed on in the  *)
(* current window is answered 429 and calls no LightService operation,    *)
(* one that finds fewer is passed on, and no request changes what is      *)
(* counted for another IP.                                                *)
C18_RateLimit ==
    /\ \A ip \in IPs, t \in 0..now : servedIn(ip, t) <= LIMIT
    /\ \A ip \in IPs, authHeader \in HeaderInputs :
         /\ Always(AnyRequest(ip, authHeader), Apart(ip))
         /\ auth(authHeader) = "next" =>
                IF servedIn(ip, now) >= LIMIT
                THEN Always(AnyRequest(ip, authHeader), TooMany)
                ELSE Always(AnyRequest(ip, authHeader), Admitted(ip))

(* C18 witness: a request was answered 429 when one client had LIMIT      *)
(* requests passed on in the current window, after earlier ones had left  *)
(* the window, and the other client fewer.                                *)
C18_Witness ==
    /\ statusCode = 429
    /\ \E ip \in IPs :
         /\ servedIn(ip, now) = LIMIT
         /\ Len(served[ip]) > LIMIT
         /\ \E other \in IPs \ {ip} :
              /\ Len(served[other]) > 0
              /\ servedIn(other, now) < LIMIT

(* What rateLimit has done with a request of ip: one answered 429 is not  *)
(* recorded, no timestamp that has left the window is kept, and the       *)
(* request is passed on when fewer than LIMIT requests of ip were passed  *)
(* on in the window, as they are once the oldest timestamp kept is WINDOW *)
(* old.                                                                   *)
Recovers(ip) ==
    /\ statusCode' = 429 =>
           /\ requests'[ip] = recent(ip)
           /\ served' = served
    /\ \A i \in 1..Len(requests'[ip]) : now - requests'[ip][i] < WINDOW
    /\ servedIn(ip, now) < LIMIT => Admitted(ip)
    /\ (requests[ip] = <<>> \/ now - requests[ip][1] >= WINDOW) => Admitted(ip)

(* C25: rateLimit never locks an IP out for good: it keeps at most LIMIT  *)
(* timestamps of an IP, does not record a request it answers 429, drops   *)
(* the timestamps that have left the window at the next request, and so   *)
(* passes a request on whenever fewer than LIMIT requests of its IP were  *)
(* passed on in the window before it; an IP that was refused is passed on *)
(* again WINDOW after its oldest counted request at the latest, whatever  *)
(* it sent and was refused in between.                                    *)
C25_NoPermanentLockout ==
    /\ \A ip \in IPs : Len(requests[ip]) <= LIMIT
    /\ \A ip \in IPs, authHeader \in HeaderInputs :
         auth(authHeader) = "next" =>
             Always(AnyRequest(ip, authHeader), Recovers(ip))

(* C25 witness: a client whose requests used up the limit and were then   *)
(* refused, the last time after its oldest counted request and before     *)
(* now, has had a request passed on to GET /lights now, WINDOW after that *)
(* oldest request; the other client has sent nothing that was counted.    *)
C25_Witness ==
    /\ op = "getAllLights"
    /\ statusCode = 200
    /\ \E ip \in IPs :
         /\ Len(served[ip]) = LIMIT + 1
         /\ served[ip][1] = now - WINDOW
         /\ served[ip][LIMIT + 1] = now
         /\ \E i \in 1..Len(rejected[ip]) :
                served[ip][1] < rejected[ip][i] /\ rejected[ip][i] < now
         /\ \A other \in IPs \ {ip} :
                served[other] = <<>> /\ rejected[other] = <<>>

(* The header carries Basic credentials that are the configured pair:     *)
(* the scheme Basic and the text user ":" password.                       *)
basicCredentialsMatch(authHeader) ==
    /\ Len(authHeader) = 2
    /\ authHeader[1] = "Basic"
    /\ authHeader[2] = BASIC_AUTH_USER \o <<":">> \o BASIC_AUTH_PASSWORD

(* No handler ran and nothing was read from or written to the store. *)
HandlerNotRun ==
    /\ op' = "none"
    /\ UNCHANGED <<store, timers, served>>

(* C19: with LOGIN_REQUIRED true a request whose Authorization header     *)
(* does not carry Basic credentials equal to the configured pair is       *)
(* answered without its handler running; with LOGIN_REQUIRED false every  *)
(* request passes the auth step.                                          *)
C19_OnlyAuthorizedReachHandlers ==
    [][\A ip \in IPs, authHeader \in HeaderInputs :
          AnyRequest(ip, authHeader) =>
              IF LOGIN_REQUIRED
              THEN basicCredentialsMatch(authHeader) \/ HandlerNotRun
              ELSE statusCode' # 401]_vars

(* The route's answer for lightId, in which the group id has no part:     *)
(* 200 and the light deleted everywhere, or the error handler's answer    *)
(* and nothing changed when no such light exists.                         *)
DeletedSystemWide(lightId) ==
    IF lightId \in DOMAIN lights
    THEN statusCode' = 200 /\ Deleted(lightId)
    ELSE statusCode' = 500 /\ FailedUnchanged

====
